---- MODULE Spec2Model ----
(***************************************************************************)
(* Model of pipeline/transcribe.py: one invocation of main() resolves the  *)
(* audio file, imports and runs faster-whisper, flattens the segments into *)
(* a word timeline and dumps it to <project>/timeline.json.                *)
(*                                                                         *)
(* Invocations are processes (Procs).  The file system (which audio paths  *)
(* exist, the content of timeline.json) is shared between them.            *)
(***************************************************************************)
EXTENDS Integers, Sequences, FiniteSets, TLC

VARIABLES
    exists,         \* set of audio paths for which os.path.exists is True
    file,           \* content of <project>/timeline.json, a sequence of tokens
    pc,             \* pc[p]: position of invocation p in main()
    argv,           \* argv[p]: sys.argv[1], or NoPath when len(sys.argv) = 1
    audio_path,     \* audio_path[p]: the local variable of main()
    loaded,         \* loaded[p]: WhisperModel(...) has been constructed
    transcribeArg,  \* transcribeArg[p]: path given to model.transcribe, or NoPath
    segs,           \* segs[p]: the segments the generator has yielded so far
    timeline,       \* timeline[p]: the local list of main()
    pending,        \* pending[p]: text json.dump still has to get to the file
    offset,         \* offset[p]: position of p's file object in timeline.json
    code,           \* code[p]: exit status of the process, -1 while it runs
    reported,       \* reported[p]: the count printed by line 66, -1 before
    before,         \* before[p]: content of timeline.json when p started
    opened,         \* opened[p]: p has executed open(out_path, 'w')
    clean,          \* clean[p]: no other invocation held the file open with p
    lastClosed      \* the invocation that closed timeline.json last, 0 if none

vars == <<exists, file, pc, argv, audio_path, loaded, transcribeArg, segs,
          timeline, pending, offset, code, reported, before, opened, clean,
          lastClosed>>

runVars == <<argv, audio_path, loaded, transcribeArg, segs, timeline, pending,
             offset, code, reported, before, opened>>

(*************************** bounds of the model ***************************)
MaxSegs == 2
MaxSegWords == 2
MaxLen == 2
MaxTick == 6

Procs == {1, 2}

(******************************** paths ************************************)
Path(d, b, e) == [dir |-> d, base |-> b, ext |-> e]
NoPath == Path("", "", "")
ProjectMp3 == Path("project", "audio", "mp3")
ProjectWav == Path("project", "audio", "wav")
ClipMp3 == Path("clips", "clip", "mp3")
ClipWav == Path("clips", "clip", "wav")
AudioPaths == {ProjectMp3, ProjectWav, ClipMp3, ClipWav}
ExplicitArgs == {ClipMp3, ClipWav}

\* same directory, same base name, extension .wav
Sibling(path) == [path EXCEPT !.ext = "wav"]

\* line 20: sys.argv[1] if len(sys.argv) > 1 else <project>/audio.mp3
FirstCandidateIgnoringArg(a) == ProjectMp3
FirstCandidate(a) == IF a # NoPath THEN a ELSE ProjectMp3

\* line 24: audio_path = os.path.join(project_dir, 'audio.wav')
FallbackCandidate(first) == ProjectWav

(************************* words, segments, entries ************************)
Whitespace == {" ", "\t"}
Alphabet == Whitespace \cup {"a"}
SeqsUpTo(S, n) == UNION {[1..k -> S] : k \in 0..n}
Texts == SeqsUpTo(Alphabet, MaxLen)
\* word timings in quarter milliseconds
Ticks == 0..MaxTick
AllWords == [word : Texts, start : Ticks, end : Ticks]

Word(t, s, e) == [word |-> t, start |-> s, end |-> e]
WordA == Word(<<" ", "a">>, 1, 5)
WordBlank == Word(<<" ">>, 5, 6)
TwoWords == {WordA, WordBlank}

\* a segment: .words is None (kind "none") or a list (kind "list")
Segment(k, ws) == [kind |-> k, words |-> ws]
NoWordsSegment == Segment("none", <<>>)
SegmentsOver(W, n) == {NoWordsSegment} \cup {Segment("list", ws) : ws \in SeqsUpTo(W, n)}
TinySegs == {NoWordsSegment} \cup {Segment("list", <<w>>) : w \in TwoWords}
ExtractSegs == SegmentsOver(TwoWords, MaxSegWords)
WordSegs == SegmentsOver(AllWords, 1)

\* str.strip(): leading and trailing whitespace removed
RECURSIVE LStrip(_)
LStrip(s) == IF s # <<>> /\ Head(s) \in Whitespace THEN LStrip(Tail(s)) ELSE s
RECURSIVE RStrip(_)
RStrip(s) ==
    IF s # <<>> /\ s[Len(s)] \in Whitespace
    THEN RStrip(SubSeq(s, 1, Len(s) - 1))
    ELSE s
Strip(s) == RStrip(LStrip(s))

\* round(x, 3): x in quarter milliseconds, the result in milliseconds;
\* a tie goes to the even millisecond
Round3(t) ==
    LET q == t \div 4
        r == t % 4
    IN  IF r < 2 THEN q
        ELSE IF r > 2 THEN q + 1
        ELSE IF q % 2 = 0 THEN q ELSE q + 1

\* lines 54-58
MakeEntrySwapped(w) ==
    [word |-> Strip(w.word), start |-> Round3(w.end), end |-> Round3(w.start)]
MakeEntry(w) ==
    [word |-> Strip(w.word), start |-> Round3(w.start), end |-> Round3(w.end)]

\* line 52: if segment.words (None and [] are both false)
Truthy(segment) == segment.kind = "list" /\ segment.words # <<>>

\* lines 53-58: for word_info in segment.words: timeline.append(...)
RECURSIVE AppendWords(_, _)
AppendWords(tl, ws) ==
    IF ws = <<>> THEN tl
    ELSE AppendWords(Append(tl, MakeEntry(Head(ws))), Tail(ws))

\* lines 52-58, the body of the segment loop
ExtractSkippingBlank(tl, segment) ==
    IF Truthy(segment)
    THEN AppendWords(tl, SelectSeq(segment.words, LAMBDA w : Strip(w.word) # <<>>))
    ELSE tl
Extract(tl, segment) ==
    IF Truthy(segment) THEN AppendWords(tl, segment.words) ELSE tl

(****************************** timeline.json ******************************)
Tok(k) == [k |-> k, word |-> <<>>, start |-> 0, end |-> 0]
Obj(e) == [k |-> "{}", word |-> e.word, start |-> e.start, end |-> e.end]
Hole == Tok("\\0")

\* line 64: json.dump(timeline, f, indent=2)
RECURSIVE DumpItems(_)
DumpItems(tl) ==
    IF tl = <<>> THEN <<>>
    ELSE IF Len(tl) = 1 THEN <<Obj(tl[1])>>
    ELSE <<Obj(tl[1]), Tok(",")>> \o DumpItems(Tail(tl))
JsonDump(tl) == <<Tok("[")>> \o DumpItems(tl) \o <<Tok("]")>>

\* a write of chunk at position off of a file f; a gap reads as zero bytes
WriteAt(f, off, chunk) ==
    LET n == IF Len(f) > off + Len(chunk) THEN Len(f) ELSE off + Len(chunk)
    IN  [i \in 1..n |->
            IF i > off /\ i <= off + Len(chunk) THEN chunk[i - off]
            ELSE IF i <= Len(f) THEN f[i]
            ELSE Hole]

\* what a consumer's json.load gets from the file
JsonLoad(f) ==
    LET n == Len(f)
        framed == n >= 2 /\ f[1] = Tok("[") /\ f[n] = Tok("]")
        inner == IF framed THEN SubSeq(f, 2, n - 1) ELSE <<>>
        m == Len(inner)
        shaped == m = 0 \/ (m % 2 = 1 /\ \A i \in 1..m :
                     IF i % 2 = 1 THEN inner[i].k = "{}" ELSE inner[i] = Tok(","))
    IN  IF framed /\ shaped
        THEN [ok |-> TRUE,
              items |-> [j \in 1..((m + 1) \div 2) |->
                  [word |-> inner[2 * j - 1].word,
                   start |-> inner[2 * j - 1].start,
                   end |-> inner[2 * j - 1].end]]]
        ELSE [ok |-> FALSE, items |-> <<>>]

(******************************* the run ***********************************)
\* line 28, line 39, an exception of the capability, the end of main()
Ended == {"exit_no_audio", "exit_no_whisper", "raised", "done"}

InitRun ==
    /\ file = <<>>
    /\ pc = [p \in Procs |-> "idle"]
    /\ argv = [p \in Procs |-> NoPath]
    /\ audio_path = [p \in Procs |-> NoPath]
    /\ loaded = [p \in Procs |-> FALSE]
    /\ transcribeArg = [p \in Procs |-> NoPath]
    /\ segs = [p \in Procs |-> <<>>]
    /\ timeline = [p \in Procs |-> <<>>]
    /\ pending = [p \in Procs |-> <<>>]
    /\ offset = [p \in Procs |-> 0]
    /\ code = [p \in Procs |-> -1]
    /\ reported = [p \in Procs |-> -1]
    /\ before = [p \in Procs |-> <<>>]
    /\ opened = [p \in Procs |-> FALSE]
    /\ clean = [p \in Procs |-> TRUE]
    /\ lastClosed = 0

\* any of the audio files may be on disk
Init == exists \in SUBSET AudioPaths /\ InitRun
\* only <project>/audio.mp3 is on disk
InitDefault == exists = {ProjectMp3} /\ InitRun

\* the process is started with argument a (NoPath: no argument)
Start(p, A) ==
    /\ pc[p] = "idle"
    /\ \E a \in A : argv' = [argv EXCEPT ![p] = a]
    /\ before' = [before EXCEPT ![p] = file]
    /\ pc' = [pc EXCEPT ![p] = "resolve"]
    /\ UNCHANGED <<exists, file, audio_path, loaded, transcribeArg, segs, timeline,
                   pending, offset, code, reported, opened, clean, lastClosed>>

\* lines 19-28
ResolveNoSecondCheck(p) ==
    /\ pc[p] = "resolve"
    /\ LET first == FirstCandidate(argv[p])
           path == IF first \in exists THEN first ELSE FallbackCandidate(first)
       IN  /\ audio_path' = [audio_path EXCEPT ![p] = path]
           /\ pc' = [pc EXCEPT ![p] = "import"]
           /\ code' = code
    /\ UNCHANGED <<exists, file, argv, loaded, transcribeArg, segs, timeline,
                   pending, offset, reported, before, opened, clean, lastClosed>>
Resolve(p) ==
    /\ pc[p] = "resolve"
    /\ LET first == FirstCandidate(argv[p])
           path == IF first \in exists THEN first ELSE FallbackCandidate(first)
       IN  /\ audio_path' = [audio_path EXCEPT ![p] = path]
           /\ IF path \in exists
              THEN pc' = [pc EXCEPT ![p] = "import"] /\ code' = code
              ELSE /\ pc' = [pc EXCEPT ![p] = "exit_no_audio"]
                   /\ code' = [code EXCEPT ![p] = 1]
    /\ UNCHANGED <<exists, file, argv, loaded, transcribeArg, segs, timeline,
                   pending, offset, reported, before, opened, clean, lastClosed>>

\* lines 34-35: the import succeeds
ImportOk(p) ==
    /\ pc[p] = "import"
    /\ pc' = [pc EXCEPT ![p] = "load"]
    /\ UNCHANGED <<exists, file, runVars, clean, lastClosed>>

\* lines 36-39: ImportError
ImportFailAfterOpen(p) ==
    /\ pc[p] = "import"
    /\ file' = <<>>
    /\ opened' = [opened EXCEPT ![p] = TRUE]
    /\ pc' = [pc EXCEPT ![p] = "exit_no_whisper"]
    /\ code' = [code EXCEPT ![p] = 1]
    /\ UNCHANGED <<exists, argv, audio_path, loaded, transcribeArg, segs,
                   timeline, pending, offset, reported, before, clean, lastClosed>>
ImportFail(p) ==
    /\ pc[p] = "import"
    /\ pc' = [pc EXCEPT ![p] = "exit_no_whisper"]
    /\ code' = [code EXCEPT ![p] = 1]
    /\ UNCHANGED <<exists, file, argv, audio_path, loaded, transcribeArg, segs,
                   timeline, pending, offset, reported, before, opened, clean,
                   lastClosed>>

\* an uncaught exception ends the process with status 1
Raise(p) ==
    /\ pc' = [pc EXCEPT ![p] = "raised"]
    /\ code' = [code EXCEPT ![p] = 1]
    /\ UNCHANGED <<exists, file, argv, audio_path, loaded, transcribeArg, segs,
                   timeline, pending, offset, reported, before, opened, clean,
                   lastClosed>>

\* line 42
LoadModel(p) ==
    /\ pc[p] = "load"
    /\ loaded' = [loaded EXCEPT ![p] = TRUE]
    /\ pc' = [pc EXCEPT ![p] = "transcribe"]
    /\ UNCHANGED <<exists, file, argv, audio_path, transcribeArg, segs, timeline,
                   pending, offset, code, reported, before, opened, clean,
                   lastClosed>>
LoadRaise(p) == pc[p] = "load" /\ Raise(p)

\* line 47: the call returns the lazy segments, or raises
Transcribe(p) ==
    /\ pc[p] = "transcribe"
    /\ transcribeArg' = [transcribeArg EXCEPT ![p] = audio_path[p]]
    /\ pc' = [pc EXCEPT ![p] = "iterate"]
    /\ UNCHANGED <<exists, file, argv, audio_path, loaded, segs, timeline,
                   pending, offset, code, reported, before, opened, clean,
                   lastClosed>>
TranscribeRaise(p) ==
    /\ pc[p] = "transcribe"
    /\ transcribeArg' = [transcribeArg EXCEPT ![p] = audio_path[p]]
    /\ pc' = [pc EXCEPT ![p] = "raised"]
    /\ code' = [code EXCEPT ![p] = 1]
    /\ UNCHANGED <<exists, file, argv, audio_path, loaded, segs, timeline,
                   pending, offset, reported, before, opened, clean, lastClosed>>

\* lines 51-60: the generator yields one more segment, one of S, and the loop
\* body runs on it; a run yields at most n segments
NextSegment(p, S, n) ==
    /\ pc[p] = "iterate"
    /\ Len(segs[p]) < n
    /\ \E segment \in S :
        /\ segs' = [segs EXCEPT ![p] = Append(@, segment)]
        /\ timeline' = [timeline EXCEPT ![p] = Extract(@, segment)]
    /\ UNCHANGED <<exists, file, pc, argv, audio_path, loaded, transcribeArg,
                   pending, offset, code, reported, before, opened, clean,
                   lastClosed>>

\* line 51: the generator raises while the next segment is decoded
IterRaiseAfterOpen(p) ==
    /\ pc[p] = "iterate"
    /\ file' = <<>>
    /\ pc' = [pc EXCEPT ![p] = "raised"]
    /\ code' = [code EXCEPT ![p] = 1]
    /\ UNCHANGED <<exists, argv, audio_path, loaded, transcribeArg, segs,
                   timeline, pending, offset, reported, before, opened, clean,
                   lastClosed>>
IterRaise(p) == pc[p] = "iterate" /\ Raise(p)

\* line 51: the generator is exhausted
IterStop(p) ==
    /\ pc[p] = "iterate"
    /\ pc' = [pc EXCEPT ![p] = "open"]
    /\ UNCHANGED <<exists, file, runVars, clean, lastClosed>>

\* line 63: open(out_path, 'w') truncates the file; line 64: json.dump
\* hands the text to the file object
OpenNoTruncate(p) ==
    /\ pc[p] = "open"
    /\ file' = file
    /\ offset' = [offset EXCEPT ![p] = 0]
    /\ pending' = [pending EXCEPT ![p] = JsonDump(timeline[p])]
    /\ opened' = [opened EXCEPT ![p] = TRUE]
    /\ clean' = [q \in Procs |->
                    IF q = p THEN \A r \in Procs \ {p} : pc[r] # "write"
                    ELSE IF pc[q] = "write" THEN FALSE ELSE clean[q]]
    /\ pc' = [pc EXCEPT ![p] = "write"]
    /\ UNCHANGED <<exists, argv, audio_path, loaded, transcribeArg, segs,
                   timeline, code, reported, before, lastClosed>>
Open(p) ==
    /\ pc[p] = "open"
    /\ file' = <<>>
    /\ offset' = [offset EXCEPT ![p] = 0]
    /\ pending' = [pending EXCEPT ![p] = JsonDump(timeline[p])]
    /\ opened' = [opened EXCEPT ![p] = TRUE]
    /\ clean' = [q \in Procs |->
                    IF q = p THEN \A r \in Procs \ {p} : pc[r] # "write"
                    ELSE IF pc[q] = "write" THEN FALSE ELSE clean[q]]
    /\ pc' = [pc EXCEPT ![p] = "write"]
    /\ UNCHANGED <<exists, argv, audio_path, loaded, transcribeArg, segs,
                   timeline, code, reported, before, lastClosed>>

\* line 64: the file object flushes the next k tokens at its own position
Write(p) ==
    /\ pc[p] = "write"
    /\ pending[p] # <<>>
    /\ \E k \in 1..Len(pending[p]) :
        /\ file' = WriteAt(file, offset[p], SubSeq(pending[p], 1, k))
        /\ offset' = [offset EXCEPT ![p] = @ + k]
        /\ pending' = [pending EXCEPT ![p] = SubSeq(@, k + 1, Len(@))]
    /\ UNCHANGED <<exists, pc, argv, audio_path, loaded, transcribeArg, segs,
                   timeline, code, reported, before, opened, clean, lastClosed>>

\* lines 63-68: the with block closes the file, the count is printed and
\* main() returns
Close(p) ==
    /\ pc[p] = "write"
    /\ pending[p] = <<>>
    /\ reported' = [reported EXCEPT ![p] = Len(timeline[p])]
    /\ code' = [code EXCEPT ![p] = 0]
    /\ lastClosed' = p
    /\ pc' = [pc EXCEPT ![p] = "done"]
    /\ UNCHANGED <<exists, file, argv, audio_path, loaded, transcribeArg, segs,
                   timeline, pending, offset, before, opened, clean>>

\* the process is gone; the command is run again
Rerun(p) ==
    /\ pc[p] \in Ended
    /\ pc' = [pc EXCEPT ![p] = "idle"]
    /\ argv' = [argv EXCEPT ![p] = NoPath]
    /\ audio_path' = [audio_path EXCEPT ![p] = NoPath]
    /\ loaded' = [loaded EXCEPT ![p] = FALSE]
    /\ transcribeArg' = [transcribeArg EXCEPT ![p] = NoPath]
    /\ segs' = [segs EXCEPT ![p] = <<>>]
    /\ timeline' = [timeline EXCEPT ![p] = <<>>]
    /\ pending' = [pending EXCEPT ![p] = <<>>]
    /\ offset' = [offset EXCEPT ![p] = 0]
    /\ code' = [code EXCEPT ![p] = -1]
    /\ reported' = [reported EXCEPT ![p] = -1]
    /\ before' = [before EXCEPT ![p] = <<>>]
    /\ opened' = [opened EXCEPT ![p] = FALSE]
    /\ UNCHANGED <<exists, file, clean, lastClosed>>

\* one step of invocation p: arguments from A, segments from S, at most n
Step(p, A, S, n) ==
    \/ Start(p, A)
    \/ Resolve(p)
    \/ ImportOk(p)
    \/ ImportFail(p)
    \/ LoadModel(p)
    \/ LoadRaise(p)
    \/ Transcribe(p)
    \/ TranscribeRaise(p)
    \/ NextSegment(p, S, n)
    \/ IterRaise(p)
    \/ IterStop(p)
    \/ Open(p)
    \/ Write(p)
    \/ Close(p)

\* the command run again and again, one run at a time, with any argument
Next == \E p \in {1} : Step(p, {NoPath} \cup ExplicitArgs, TinySegs, MaxSegs) \/ Rerun(p)
Spec == Init /\ [][Next]_vars

\* one run on the default audio file, the segments of up to MaxSegWords words
NextExtract == \E p \in {1} : Step(p, {NoPath}, ExtractSegs, MaxSegs)
SpecExtract == InitDefault /\ [][NextExtract]_vars

\* one run on the default audio file, which holds at most one word, any word
NextWord == \E p \in {1} : Step(p, {NoPath}, WordSegs, 1)
SpecWord == InitDefault /\ [][NextWord]_vars

\* two runs at the same time in the same project directory
NextConc == \E p \in Procs : Step(p, {NoPath}, TinySegs, 1)
SpecConc == InitDefault /\ [][NextConc]_vars

(******************************* the claims ********************************)
Resolved(p) == pc[p] \notin {"idle", "resolve"}
AllDone == \A p \in Procs : pc[p] = "done"

\* the words of the segments ss, in the order the capability gave them
RECURSIVE RawWords(_)
RawWords(ss) ==
    IF ss = <<>> THEN <<>>
    ELSE (IF Head(ss).kind = "list" THEN Head(ss).words ELSE <<>>) \o RawWords(Tail(ss))

\* C1: a run in which neither the first candidate nor the .wav fallback
\* candidate the resolver tries exists ends with exit code 1 at line 28: no
\* model is loaded and transcribe is never called.
C1_MissingInputExits ==
    \A p \in Procs :
        (/\ Resolved(p)
         /\ FirstCandidate(argv[p]) \notin exists
         /\ FallbackCandidate(FirstCandidate(argv[p])) \notin exists)
        => /\ pc[p] = "exit_no_audio"
           /\ code[p] = 1
           /\ ~loaded[p]
           /\ transcribeArg[p] = NoPath
           /\ ~opened[p]

\* C1 witness: a run with an explicit argument has ended at line 28 although
\* another audio file is on disk.
C1_Witness ==
    \E p \in Procs :
        /\ pc[p] = "exit_no_audio"
        /\ argv[p] # NoPath
        /\ exists # {}

\* C2: whenever the first candidate does not exist, the second candidate
\* the resolver tries is the sibling of the first: same directory, same base
\* name, extension .wav (the claim as stated; the code tries
\* <project>/audio.wav whatever the first candidate).
C2_FallbackIsSibling ==
    \A p \in Procs :
        (Resolved(p) /\ FirstCandidate(argv[p]) \notin exists)
        => audio_path[p] = Sibling(FirstCandidate(argv[p]))

\* C3: when an explicit path argument is given and exists, it is the path
\* the run resolves to and the only path handed to transcribe, whatever the
\* existence of <project>/audio.mp3 and <project>/audio.wav.
C3_ExplicitPathUsed ==
    \A p \in Procs :
        (Resolved(p) /\ argv[p] # NoPath /\ argv[p] \in exists)
        => /\ audio_path[p] = argv[p]
           /\ pc[p] # "exit_no_audio"
           /\ transcribeArg[p] \in {NoPath, argv[p]}

\* C3 witness: transcribe was called with the explicit path while both
\* default files exist.
C3_Witness ==
    \E p \in Procs :
        /\ argv[p] # NoPath
        /\ transcribeArg[p] = argv[p]
        /\ ProjectMp3 \in exists
        /\ ProjectWav \in exists

\* C4: when the import of the capability fails the run ends with exit code
\* 1 with no model constructed, transcribe never called and timeline.json
\* never opened: the file is as it was when the run started.
C4_ImportFailureFailsFast ==
    \A p \in Procs :
        pc[p] = "exit_no_whisper"
        => /\ code[p] = 1
           /\ ~loaded[p]
           /\ transcribeArg[p] = NoPath
           /\ ~opened[p]
           /\ file = before[p]

\* C4 witness: the import failed in a run that found a timeline.json of an
\* earlier run.
C4_Witness ==
    \E p \in Procs : pc[p] = "exit_no_whisper" /\ before[p] # <<>>

\* C5: until the last segment has been consumed, and in a run the
\* capability ended by raising (at the construction of the model, in
\* transcribe, or between two segments), timeline.json has not been opened
\* and holds what it held when the run started.
C5_NoWriteBeforeLastSegment ==
    \A p \in Procs :
        pc[p] \in {"load", "transcribe", "iterate", "raised"}
        => ~opened[p] /\ file = before[p]

\* C5 witness: the capability raised after a segment with a word had been
\* extracted, in a run that found a timeline.json of an earlier run.
C5_Witness ==
    \E p \in Procs :
        /\ pc[p] = "raised"
        /\ timeline[p] # <<>>
        /\ before[p] # <<>>

\* C6: the timeline is the concatenation, in segment order, of the word
\* lists of the segments yielded so far, one entry per word in the order
\* given; a segment whose word list is None or empty adds nothing.
C6_TimelineIsConcatenation ==
    \A p \in Procs :
        LET raw == RawWords(segs[p])
        IN  /\ Len(timeline[p]) = Len(raw)
            /\ \A i \in 1..Len(raw) : timeline[p][i] = MakeEntry(raw[i])

\* C6 witness: a finished run whose first segment had no words and whose
\* second had two different words, the second of them blank.
C6_Witness ==
    \E p \in Procs :
        /\ pc[p] = "done"
        /\ Len(segs[p]) = 2
        /\ ~Truthy(segs[p][1])
        /\ segs[p][2].words = <<WordA, WordBlank>>

\* C7: the text of every entry of a timeline has no leading and no trailing
\* whitespace and is not empty (the claim as stated; a word of whitespace
\* only gives an entry with the empty text).
C7_TextStrippedNeverEmpty ==
    \A p \in Procs : \A i \in 1..Len(timeline[p]) :
        LET t == timeline[p][i].word
        IN  /\ t # <<>>
            /\ Head(t) \notin Whitespace
            /\ t[Len(t)] \notin Whitespace

C9_NeverMixture ==
    AllDone => \E p \in Procs : file = JsonDump(timeline[p])

\* C9 as amended: when both runs have completed and the run that closed
\* the file last held it open alone, timeline.json is the complete
\* serialized timeline of that run.
C9_LastWriterWinsWhenAlone ==
    (AllDone /\ clean[lastClosed])
    => file = JsonDump(timeline[lastClosed])

\* C9 witness: both runs completed, with timelines of different lengths,
\* and the last to close held the file open alone.
C9_Witness ==
    /\ AllDone
    /\ clean[lastClosed]
    /\ Len(timeline[1]) # Len(timeline[2])
    /\ Len(timeline[lastClosed]) = 0

\* C10: after a successful run timeline.json loads as a JSON array of the
\* run's timeline: as many elements as the count reported, the entries of
\* the timeline in order, each with the keys word, start and end, and
\* nothing of what the file held before.
C10_FileIsLastTimeline ==
    \A p \in {1} :
        pc[p] = "done"
        => LET r == JsonLoad(file)
           IN  /\ r.ok
               /\ Len(r.items) = reported[p]
               /\ reported[p] = Len(timeline[p])
               /\ \A i \in 1..Len(r.items) :
                    /\ r.items[i] = timeline[p][i]
                    /\ DOMAIN r.items[i] = {"word", "start", "end"}
               /\ file = JsonDump(timeline[p])

\* C10 witness: a successful run of fewer words than the run whose
\* timeline.json it found.
C10_Witness ==
    \E p \in {1} :
        /\ pc[p] = "done"
        /\ JsonLoad(before[p]).ok
        /\ Len(JsonLoad(before[p]).items) > reported[p]
        /\ reported[p] >= 1

====
